---- MODULE Spec2Model ----
(***************************************************************************)
(* State-machine model of pyrobolearn's QP constraint taxonomy             *)
(* (priorities/constraints/constraint.py) and of the soft / hard priority  *)
(* composition schemes that its module documentation defines.              *)
(*                                                                         *)
(* Also modelled: the Approximator wrapper (approximators/approximator.py)  *)
(* and the BiManipulatorRobot limb accessors (robots/manipulator.py).       *)
(*                                                                         *)
(* Five specifications share the variables of the module:                  *)
(*   Spec       one Constraint object, its model interface and its caller  *)
(*   SpecHard   the sequential (hard priority) cascade of QPs              *)
(*   SpecSoft   the stacked (soft priority) augmented task and its         *)
(*              reduction to the standard QP objective                     *)
(*   SpecApprox one Approximator, its setters and predict                  *)
(*   SpecRobot  one BiManipulatorRobot, its id fields and limb properties  *)
(***************************************************************************)
EXTENDS Integers, Sequences, FiniteSets, TLC

(***************************************************************************)
(* Bounds of the model.                                                    *)
(***************************************************************************)
\* the optimisation variables x are pairs of integers in -XMax..XMax
XMax == 1
\* a model interface's (robot) state is one of 0..MaxModelState
MaxModelState == 2
\* number of priority levels of a hard-priority cascade
NLevels == 3
\* largest number of tasks stacked into one soft-priority level
MaxTasks == 3
\* array entries flowing through predict are integers 0..MaxData
MaxData == 4
\* number of arms (and of hands) of a bi-manipulator
NumLimbs == 2

Vals == (-XMax)..XMax
Vec == Vals \X Vals

(***************************************************************************)
(* Python objects that a caller can hand to a Constraint.                  *)
(***************************************************************************)
\* instances of ModelInterface (constraint.py:112 imports the class)
ModelObjs == {"m1", "m2"}
\* objects that are not: None and some robot instance
OtherObjs == {"None", "robot"}
Objects == ModelObjs \cup OtherObjs

ClassOf(o) ==
    IF o \in ModelObjs THEN "ModelInterface"
    ELSE IF o = "None" THEN "NoneType" ELSE "Robot"

isinstance(o, c) == ClassOf(o) = c

(***************************************************************************)
(* The class hierarchy of constraint.py and Python's method resolution.    *)
(***************************************************************************)
Variants ==
    {"Constraint", "EqualityConstraint", "InequalityConstraint",
     "UnilateralConstraint", "BilateralConstraint", "BoundConstraint",
     "KinematicConstraint", "JointVelocityConstraint", "DynamicConstraint",
     "JointAccelerationConstraint", "JointEffortConstraint"}

\* the base class named in each `class X(Base)` statement
Base(c) ==
    CASE c = "Constraint" -> "object"
      [] c = "EqualityConstraint" -> "Constraint"
      [] c = "InequalityConstraint" -> "Constraint"
      [] c = "UnilateralConstraint" -> "InequalityConstraint"
      [] c = "BilateralConstraint" -> "InequalityConstraint"
      [] c = "BoundConstraint" -> "InequalityConstraint"
      [] c = "KinematicConstraint" -> "Constraint"
      [] c = "JointVelocityConstraint" -> "KinematicConstraint"
      [] c = "DynamicConstraint" -> "Constraint"
      [] c = "JointAccelerationConstraint" -> "DynamicConstraint"
      [] c = "JointEffortConstraint" -> "DynamicConstraint"

StaticMethods ==
    {"is_equality_constraint", "is_inequality_constraint", "has_bounds",
     "is_unilateral_constraint", "is_bilateral_constraint"}

\* the static methods each class body defines: the sub-classes are all `pass`
Defines(c) == IF c = "Constraint" THEN StaticMethods ELSE {}

\* the class whose definition of method m an instance of class c runs
RECURSIVE Resolve(_, _)
Resolve(c, m) == IF m \in Defines(c) THEN c ELSE Resolve(Base(c), m)

\* what the body of method m of class c returns
StaticBody(c, m) ==
    CASE c = "Constraint" /\ m = "is_equality_constraint" -> FALSE
      [] c = "Constraint" /\ m = "is_inequality_constraint" -> FALSE
      [] c = "Constraint" /\ m = "has_bounds" -> FALSE
      [] c = "Constraint" /\ m = "is_unilateral_constraint" -> FALSE
      [] c = "Constraint" /\ m = "is_bilateral_constraint" -> FALSE

is_equality_constraint(c) ==
    StaticBody(Resolve(c, "is_equality_constraint"), "is_equality_constraint")
is_inequality_constraint(c) ==
    StaticBody(Resolve(c, "is_inequality_constraint"), "is_inequality_constraint")
has_bounds(c) ==
    StaticBody(Resolve(c, "has_bounds"), "has_bounds")
is_unilateral_constraint(c) ==
    StaticBody(Resolve(c, "is_unilateral_constraint"), "is_unilateral_constraint")
is_bilateral_constraint(c) ==
    StaticBody(Resolve(c, "is_bilateral_constraint"), "is_bilateral_constraint")

StaticCall(c, m) == StaticBody(Resolve(c, m), m)

(***************************************************************************)
(* The instance attributes of a Constraint and the properties reading them.*)
(***************************************************************************)
Accessors ==
    {"lower_bound", "upper_bound", "A_eq", "b_eq", "A_ineq",
     "b_lower_bound", "b_upper_bound"}

\* the attribute each property getter returns
AttrOf(p) ==
    CASE p = "model" -> "_model"
      [] p = "lower_bound" -> "_lower_bound"
      [] p = "upper_bound" -> "_upper_bound"
      [] p = "A_eq" -> "_A_eq"
      [] p = "b_eq" -> "_b_eq"
      [] p = "A_ineq" -> "_A_ineq"
      [] p = "b_lower_bound" -> "_b_lower_bound"
      [] p = "b_upper_bound" -> "_b_upper_bound"

Attrs == {AttrOf(p) : p \in Accessors \cup {"model"}}

\* the attributes update() is documented to refresh
MatrixAttrs == {"_A_eq", "_b_eq", "_A_ineq", "_b_lower_bound", "_b_upper_bound"}

\* an attribute that no statement has assigned yet is absent from the instance
Unset == "<unset>"

VARIABLES
    cls,        \* class of the constructed Constraint, "none" before construction
    self,       \* its instance attributes: [Attrs -> value or Unset]
    mstate,     \* the state of every model interface, owned by the caller
    op,         \* the operation that ran last: [name, arg, x]
    raised,     \* the exception the last operation raised, "None" if none
    ret,        \* what the last operation returned
    updated,    \* history: update(x) has run on this constraint
    repeated    \* history: the last two operations were update/__call__ with one x

cvars == <<cls, self, mstate, op, raised, ret, updated, repeated>>

VARIABLES
    hlevels,    \* the priority levels of the cascade: [A, b, cons], most important first
    horder,     \* the levels in the order in which they were solved
    xstar,      \* xstar[i]: the optimum x_i* of level i, NoX while unsolved
    hprob,      \* hprob[i]: the constraint set of the QP that was solved for level i
    hfailed     \* the solver reported a level infeasible: the cascade stopped

hvars == <<hlevels, horder, xstar, hprob, hfailed>>

VARIABLES
    stasks,     \* the tasks (A_i, b_i, W_i) of one soft-priority level, in order
    sc,         \* the linear cost term c added to the objective (zero if none)
    saug,       \* the augmented task (A, b, W), rows 0 before stacking
    ssplit,     \* the tasks recovered by splitting the augmented task
    sqp,        \* the standard-form objective (Q, p)
    seval       \* the last evaluation of both objectives at a point x

svars == <<stasks, sc, saug, ssplit, sqp, seval>>

VARIABLES
    a_exists,   \* an Approximator has been constructed
    a_inputs,   \* its _inputs
    a_outputs,  \* its _outputs
    a_model,    \* its _model
    a_pre,      \* its _preprocessors
    a_post,     \* its _postprocessors
    a_op,       \* the operation that ran last on it: [name, arg]
    a_raised,   \* the exception that operation raised, "None" if none
    a_ret,      \* what the last predict returned
    a_calls     \* the stages the last predict called, in order: [stage, proc, in, out]

avars == <<a_exists, a_inputs, a_outputs, a_model, a_pre, a_post, a_op, a_raised,
           a_ret, a_calls>>

VARIABLES
    arms,           \* BiManipulatorRobot.arms
    hands,          \* BiManipulatorRobot.hands
    left_arm_id,
    left_hand_id,
    right_arm_id,
    right_hand_id,
    r_op,           \* the operation that ran last on the robot: [name, arg]
    r_raised,       \* the exception that operation raised, "None" if none
    r_ret           \* what the last property read returned

rvars == <<arms, hands, left_arm_id, left_hand_id, right_arm_id, right_hand_id,
           r_op, r_raised, r_ret>>

vars == <<cvars, hvars, svars, avars, rvars>>

\* Python values: None, an int, a str, a numpy array with its entries
PyNone == [t |-> "None"]
\* what a robot property has returned when it has returned nothing
NoLimb == [kind |-> "None"]
PyInt(n) == [t |-> "int", d |-> n]
PyStr == [t |-> "str"]
Arr(d) == [t |-> "ndarray", d |-> d]

Op(n, a, x) == [name |-> n, arg |-> a, x |-> x]
NoX == <<>>

UpdateOps == {"update", "__call__"}

\* a setter that forgets the isinstance check
model_setter_unchecked(model) ==
    /\ raised' = "None"
    /\ self' = [self EXCEPT !["_model"] = model]

(***************************************************************************)
(* Constraint.model (setter), constraint.py:175-181                        *)
(***************************************************************************)
model_setter(model) ==
    IF ~isinstance(model, "ModelInterface")
    THEN /\ raised' = "TypeError"
         /\ self' = self
    ELSE /\ raised' = "None"
         /\ self' = [self EXCEPT !["_model"] = model]

\* Constraint.__init__, constraint.py:157-164: an exception leaves no object
Constraint__init__(v, model) ==
    /\ cls = "none"
    /\ model_setter(model)
    /\ cls' = IF raised' = "None" THEN v ELSE "none"
    /\ op' = Op("__init__", model, NoX)
    /\ ret' = "None"
    /\ updated' = FALSE
    /\ repeated' = FALSE
    /\ UNCHANGED mstate
    /\ UNCHANGED <<hvars, svars, avars, rvars>>

\* assignment `constraint.model = model` on an existing constraint
SetModel(model) ==
    /\ cls # "none"
    /\ model_setter(model)
    /\ op' = Op("model.setter", model, NoX)
    /\ ret' = "None"
    /\ repeated' = FALSE
    /\ UNCHANGED <<cls, mstate, updated>>
    /\ UNCHANGED <<hvars, svars, avars, rvars>>

\* a property getter `return self._name`: AttributeError when never assigned
getattr(p) ==
    IF self[AttrOf(p)] = Unset
    THEN /\ raised' = "AttributeError"
         /\ ret' = "None"
    ELSE /\ raised' = "None"
         /\ ret' = self[AttrOf(p)]

\* reading constraint.model, constraint.py:170-173
GetModel ==
    /\ cls # "none"
    /\ getattr("model")
    /\ op' = Op("model", "-", NoX)
    /\ repeated' = FALSE
    /\ UNCHANGED <<cls, self, mstate, updated>>
    /\ UNCHANGED <<hvars, svars, avars, rvars>>

\* reading one of the seven matrix / vector / bound properties
ReadAccessor(p) ==
    /\ cls # "none"
    /\ getattr(p)
    /\ op' = Op("read", p, NoX)
    /\ repeated' = FALSE
    /\ UNCHANGED <<cls, self, mstate, updated>>
    /\ UNCHANGED <<hvars, svars, avars, rvars>>

QPProperties == {"G", "h", "F", "c"}

\* Constraint.G / h / F / c, constraint.py:221-238: the bodies are `pass` (or
\* a docstring only), so each getter returns None and never raises
qp_getter(p) ==
    /\ raised' = "None"
    /\ ret' = "None"

\* reading one of the standard-form properties G, h, F, c
ReadQP(p) ==
    /\ cls # "none"
    /\ qp_getter(p)
    /\ op' = Op("qp", p, NoX)
    /\ repeated' = FALSE
    /\ UNCHANGED <<cls, self, mstate, updated>>
    /\ UNCHANGED <<hvars, svars, avars, rvars>>

\* the value a concrete constraint stores as its upper bound b_u
UpperBoundValue == "1.0"

\* a concrete constraint assigns self._b_upper_bound (the properties have no
\* setter: the private attribute is the only way to give the bound a value)
SetUpperBound ==
    /\ cls # "none"
    /\ self' = [self EXCEPT !["_b_upper_bound"] = UpperBoundValue]
    /\ op' = Op("assign", "_b_upper_bound", NoX)
    /\ raised' = "None"
    /\ ret' = "None"
    /\ repeated' = FALSE
    /\ UNCHANGED <<cls, mstate, updated>>
    /\ UNCHANGED <<hvars, svars, avars, rvars>>

\* calling one of the classification static methods on the constraint
Classify(m) ==
    /\ cls # "none"
    /\ op' = Op("classify", m, NoX)
    /\ raised' = "None"
    /\ ret' = IF StaticCall(cls, m) THEN "True" ELSE "False"
    /\ repeated' = FALSE
    /\ UNCHANGED <<cls, self, mstate, updated>>
    /\ UNCHANGED <<hvars, svars, avars, rvars>>

\* an update whose result depends on what the previous update left behind
update_stateful(x) ==
    /\ self' = [self EXCEPT !["_A_eq"] = IF self["_A_eq"] = "A0" THEN "A1" ELSE "A0"]
    /\ mstate' = mstate
    /\ raised' = "None"
    /\ ret' = "None"

\* an update that writes into the model interface it reads from
update_writes_model(x) ==
    /\ self' = self
    /\ mstate' = [mstate EXCEPT ![self["_model"]] = (mstate[self["_model"]] + 1) % (MaxModelState + 1)]
    /\ raised' = "None"
    /\ ret' = "None"

\* Constraint.update, constraint.py:273-280: the body is `pass`
update(x) ==
    /\ self' = self
    /\ mstate' = mstate
    /\ raised' = "None"
    /\ ret' = "None"

Update(x) ==
    /\ cls # "none"
    /\ update(x)
    /\ op' = Op("update", "-", x)
    /\ updated' = TRUE
    /\ repeated' = (op.name \in UpdateOps /\ op.x = x)
    /\ UNCHANGED cls
    /\ UNCHANGED <<hvars, svars, avars, rvars>>

\* Constraint.__call__, constraint.py:293-300: return self.update(x)
Call(x) ==
    /\ cls # "none"
    /\ update(x)
    /\ op' = Op("__call__", "-", x)
    /\ updated' = TRUE
    /\ repeated' = (op.name \in UpdateOps /\ op.x = x)
    /\ UNCHANGED cls
    /\ UNCHANGED <<hvars, svars, avars, rvars>>

\* the caller advances the robot: the state of one model interface changes
ModelStep(m) ==
    /\ mstate' = [mstate EXCEPT ![m] = (mstate[m] + 1) % (MaxModelState + 1)]
    /\ op' = Op("model_step", m, NoX)
    /\ raised' = "None"
    /\ ret' = "None"
    /\ repeated' = FALSE
    /\ UNCHANGED <<cls, self, updated>>
    /\ UNCHANGED <<hvars, svars, avars, rvars>>

InitConstraint ==
    /\ cls = "none"
    /\ self = [a \in Attrs |-> Unset]
    /\ mstate = [m \in ModelObjs |-> 0]
    /\ op = Op("none", "-", NoX)
    /\ raised = "None"
    /\ ret = "None"
    /\ updated = FALSE
    /\ repeated = FALSE

\* no cascade is being solved
HardIdle ==
    /\ hlevels = <<>>
    /\ horder = <<>>
    /\ xstar = <<>>
    /\ hprob = <<>>
    /\ hfailed = FALSE

\* no soft-priority level is being composed
SoftIdle ==
    /\ stasks = <<>>
    /\ sc = <<0, 0>>
    /\ saug = [A |-> <<>>, b |-> <<>>, W |-> <<>>]
    /\ ssplit = <<>>
    /\ sqp = [Q |-> <<>>, p |-> <<>>]
    /\ seval = [done |-> FALSE, x |-> <<0, 0>>, std |-> 0, norm |-> 0]

\* no constraint object exists
ConstraintIdle == InitConstraint

\* no approximator exists
ApproxIdle ==
    /\ a_exists = FALSE
    /\ a_inputs = PyNone
    /\ a_outputs = PyNone
    /\ a_model = "None"
    /\ a_pre = <<>>
    /\ a_post = <<>>
    /\ a_op = [name |-> "none", arg |-> PyNone]
    /\ a_raised = "None"
    /\ a_ret = PyNone
    /\ a_calls = <<>>

\* no robot exists
RobotIdle ==
    /\ arms = <<>>
    /\ hands = <<>>
    /\ left_arm_id = 0
    /\ left_hand_id = 0
    /\ right_arm_id = 0
    /\ right_hand_id = 0
    /\ r_op = [name |-> "none", arg |-> "none"]
    /\ r_raised = "None"
    /\ r_ret = NoLimb

Init == InitConstraint /\ HardIdle /\ SoftIdle /\ ApproxIdle /\ RobotIdle

Next ==
    \/ \E v \in Variants, o \in Objects : Constraint__init__(v, o)
    \/ \E o \in Objects : SetModel(o)
    \/ GetModel
    \/ \E p \in Accessors : ReadAccessor(p)
    \/ \E p \in QPProperties : ReadQP(p)
    \/ SetUpperBound
    \/ \E m \in StaticMethods : Classify(m)
    \/ \E x \in Vec : Update(x)
    \/ \E x \in Vec : Call(x)
    \/ \E m \in ModelObjs : ModelStep(m)

Spec == Init /\ [][Next]_vars

(***************************************************************************)
(* Properties of the Constraint object (checked under Spec).               *)
(***************************************************************************)

\* C1: constructing a constraint with, or assigning to its `model`, an object
\* that is not a ModelInterface raises TypeError and changes nothing (no
\* object is constructed, the held model stays); with a ModelInterface the
\* operation succeeds and the constraint holds exactly that object.
C1_ModelTypeChecked ==
    [][op'.name \in {"__init__", "model.setter"} =>
         IF isinstance(op'.arg, "ModelInterface")
         THEN raised' = "None" /\ cls' # "none" /\ self'["_model"] = op'.arg
         ELSE raised' = "TypeError" /\ cls' = cls /\ self' = self]_vars

\* a constraint holding a model has rejected the assignment of a non-model
C1_Witness ==
    /\ op.name = "model.setter"
    /\ raised = "TypeError"
    /\ ~isinstance(op.arg, "ModelInterface")
    /\ self["_model"] \in ModelObjs

ClassificationTriple ==
    {"is_equality_constraint", "is_inequality_constraint", "has_bounds"}

\* C2: for every variant exactly one of is_equality_constraint(),
\* is_inequality_constraint(), has_bounds() returns true, and no operation
\* on the constraint changes the three answers.
C2_ExactlyOneClassification ==
    [][cls' # "none" =>
         /\ Cardinality({m \in ClassificationTriple : StaticCall(cls', m)}) = 1
         /\ cls # "none" =>
               \A m \in ClassificationTriple : StaticCall(cls', m) = StaticCall(cls, m)]_vars

InequalityFamily ==
    {"InequalityConstraint", "UnilateralConstraint", "BilateralConstraint",
     "BoundConstraint"}

\* C3: an EqualityConstraint answers true to is_equality_constraint(), and
\* InequalityConstraint, UnilateralConstraint, BilateralConstraint and
\* BoundConstraint answer true to is_inequality_constraint().
C3_FlagsFollowVariant ==
    /\ cls = "EqualityConstraint" => is_equality_constraint(cls)
    /\ cls \in InequalityFamily => is_inequality_constraint(cls)

\* C4: reading a matrix / vector / bound accessor fails before the first
\* update(x), returns a value without error after it, and never changes the
\* constraint.
C4_AccessorsAfterUpdate ==
    [][op'.name = "read" =>
         /\ raised' = IF updated THEN "None" ELSE "AttributeError"
         /\ UNCHANGED <<cls, self, mstate>>]_vars

\* C5: an update(x) (or __call__(x)) that directly follows one with the same
\* x, hence the same model state, leaves A_eq, b_eq, A_ineq, b_lower_bound
\* and b_upper_bound as the first one left them.
C5_UpdateIdempotent ==
    [][(op.name \in UpdateOps /\ op'.name \in UpdateOps /\ op'.x = op.x) =>
         \A a \in MatrixAttrs : self'[a] = self[a]]_vars

\* two updates in a row with the same x, after the model has moved
C5_Witness ==
    /\ repeated
    /\ op.name \in UpdateOps
    /\ mstate[self["_model"]] # 0

ConstraintReads == {"update", "__call__", "read", "qp", "classify", "model"}

\* C6: update, __call__, the accessors and the classification queries leave
\* every model interface's state unchanged and the constraint keeps the
\* reference to the same model object.
C6_ModelNeverMutated ==
    [][op'.name \in ConstraintReads =>
         /\ mstate' = mstate
         /\ self'["_model"] = self["_model"]]_vars

\* an update ran on a constraint whose model is in a state the caller set
C6_Witness ==
    /\ op.name \in UpdateOps
    /\ self["_model"] \in ModelObjs
    /\ mstate[self["_model"]] = MaxModelState

\* no matrix or vector of the constraint holds a row
NoActiveRows == \A a \in MatrixAttrs : self[a] = Unset

\* what the claims call an empty matrix, and an unbounded lower bound
EmptyMatrix == "[]"
MinusInfinity == "-inf"

C12_UnilateralLowerUnbounded ==
    (/\ cls = "UnilateralConstraint"
     /\ self["_b_upper_bound"] # Unset
     /\ self["_b_lower_bound"] = Unset
     /\ updated
     /\ op = Op("read", "b_lower_bound", NoX))
        => (raised = "None" /\ ret = MinusInfinity)

\* C13: on a constraint that has been updated, G, h, F and c return the
\* standard-form data of the constraint: none of the four returns None.
C13_StandardFormReturned ==
    [][(op'.name = "qp" /\ updated') =>
         (raised' = "None" /\ ret' # "None" /\ UNCHANGED <<cls, self, mstate>>)]_vars

(***************************************************************************)
(* Hard priority tasks (module documentation, constraint.py:63-99): the    *)
(* levels are solved one after the other, each under its own constraints,  *)
(* the constraints of all more important levels, and the achieved values   *)
(* A_j x = A_j x_j* of all more important levels.                          *)
(***************************************************************************)

Dot(r, x) == r[1] * x[1] + r[2] * x[2]

RECURSIVE SumTo(_, _)
SumTo(f, n) == IF n = 0 THEN 0 ELSE f[n] + SumTo(f, n - 1)

\* sum of the entries of a sequence of integers
Sum(f) == SumTo(f, Len(f))

\* a constraint is <<kind, row, rhs>>: row.x <= rhs ("ineq") or row.x = rhs ("eq")
Sat(x, con) ==
    IF con[1] = "eq" THEN Dot(con[2], x) = con[3] ELSE Dot(con[2], x) <= con[3]

\* the levels a cascade is built from: task ||A x - b||^2 and own constraints
LevelCatalog ==
    { [A |-> << <<1, 0>> >>, b |-> <<XMax>>, cons |-> {}],
      [A |-> << <<0, 1>> >>, b |-> <<-XMax>>, cons |-> {<<"eq", <<1, 0>>, 0>>}],
      [A |-> << <<1, 1>> >>, b |-> <<0>>, cons |-> {<<"ineq", <<0, 1>>, 0>>}],
      [A |-> << <<1, 0>>, <<1, 0>> >>, b |-> <<1, 0>>, cons |-> {}],
      [A |-> << <<1, 0>> >>, b |-> <<0>>, cons |-> {<<"ineq", <<-1, 0>>, -1>>}],
      [A |-> << <<1, 0>>, <<1, 1>> >>, b |-> <<1, 0>>, cons |-> {}] }

Levels == 1..NLevels

\* G_i x <= h_i and F_i x = c_i of level i
OwnConstraints(i) == hlevels[i].cons

\* A_j x = A_j x_j*, row by row
Frozen(j) ==
    {<<"eq", hlevels[j].A[r], Dot(hlevels[j].A[r], xstar[j])>> :
        r \in 1..Len(hlevels[j].A)}

\* only the level just before i is frozen
FrozenEqualities_lastonly(i) ==
    UNION {Frozen(j) : j \in {k \in 1..(i - 1) : k = i - 1}}

\* the frozen equalities of every level more important than i
FrozenEqualities(i) == UNION {Frozen(j) : j \in 1..(i - 1)}

\* the constraints of the more important levels are dropped
InheritedConstraints_dropped(i) == {}

\* G_j x <= h_j and F_j x = c_j of every level more important than i
InheritedConstraints(i) == UNION {OwnConstraints(j) : j \in 1..(i - 1)}

\* the constraint set of the QP solved for level i
CumulativeConstraints(i) ==
    OwnConstraints(i) \cup FrozenEqualities(i) \cup InheritedConstraints(i)

Feasible(P) == {x \in Vec : \A con \in P : Sat(x, con)}

\* ||A x - b||^2
Residual(A, b, x) ==
    Sum([r \in 1..Len(A) |-> (Dot(A[r], x) - b[r]) * (Dot(A[r], x) - b[r])])

\* the optima of level i over a feasible set: the solver returns one of them
ArgMin(i, feas) ==
    {x \in feas : \A y \in feas :
        Residual(hlevels[i].A, hlevels[i].b, x) <= Residual(hlevels[i].A, hlevels[i].b, y)}

\* level i is the next one to solve: all levels before it have been solved
NextLevel(i) == i = Len(horder) + 1

\* the external solver solves the QP of level i, or reports it infeasible
SolveLevel(i) ==
    /\ ~hfailed
    /\ NextLevel(i)
    /\ LET P == CumulativeConstraints(i)
           feas == Feasible(P)
       IN  /\ hprob' = [hprob EXCEPT ![i] = P]
           /\ horder' = Append(horder, i)
           /\ IF feas = {}
              THEN /\ hfailed' = TRUE
                   /\ xstar' = xstar
              ELSE /\ hfailed' = FALSE
                   /\ \E x \in ArgMin(i, feas) : xstar' = [xstar EXCEPT ![i] = x]
    /\ UNCHANGED hlevels
    /\ UNCHANGED <<cvars, svars, avars, rvars>>

InitHard ==
    /\ hlevels \in [Levels -> LevelCatalog]
    /\ horder = <<>>
    /\ xstar = [i \in Levels |-> NoX]
    /\ hprob = [i \in Levels |-> {}]
    /\ hfailed = FALSE
    /\ ConstraintIdle
    /\ SoftIdle
    /\ ApproxIdle
    /\ RobotIdle

NextHard == \E i \in Levels : SolveLevel(i)

SpecHard == InitHard /\ [][NextHard]_vars

Solved(i) == xstar[i] # NoX

\* C7: the levels are solved strictly in order, and the QP solved for level i
\* contains its own constraints and, for every more important level j, the
\* frozen equality A_j x = A_j x_j*, G_j x <= h_j and F_j x = c_j.
C7_CumulativeInOrder ==
    /\ \A k \in 1..Len(horder) :
         /\ horder[k] = k
         /\ \A j \in 1..(k - 1) : Solved(j)
    /\ \A i \in Levels : Solved(i) =>
         /\ OwnConstraints(i) \subseteq hprob[i]
         /\ \A j \in 1..(i - 1) :
              /\ Solved(j)
              /\ Frozen(j) \subseteq hprob[i]
              /\ OwnConstraints(j) \subseteq hprob[i]

\* the last level was solved under constraints inherited from the first one
C7_Witness ==
    /\ Solved(NLevels)
    /\ OwnConstraints(1) # {}
    /\ OwnConstraints(NLevels) # OwnConstraints(1)

FullRowRank(A) ==
    IF Len(A) = 1 THEN A[1] # <<0, 0>>
    ELSE A[1][1] * A[2][2] - A[1][2] * A[2][1] # 0

AchievedBy(j, x) ==
    [r \in 1..Len(hlevels[j].A) |-> Dot(hlevels[j].A[r], x)]

\* C8: every solved level keeps the achieved value of every more important
\* level (A_j x_i* = A_j x_j*), the first level is solved on its own and its
\* optimum is never changed by a later solve, and a first level of full row
\* rank without constraints of its own is met exactly by every optimum
\* (J1 x1* = v1 and J1 xi* = v1).
C8_OptimaPreserved ==
    [][/\ \A i \in Levels : Solved(i)' =>
            \A j \in 1..(i - 1) : AchievedBy(j, xstar'[i]) = AchievedBy(j, xstar'[j])
       /\ Solved(1)' =>
            /\ hprob'[1] = OwnConstraints(1)
            /\ xstar'[1] \in ArgMin(1, Feasible(OwnConstraints(1)))
       /\ Solved(1) => xstar'[1] = xstar[1]
       /\ (FullRowRank(hlevels[1].A) /\ OwnConstraints(1) = {}) =>
            \A i \in Levels : Solved(i)' => AchievedBy(1, xstar'[i]) = hlevels[1].b]_vars

\* a three-level cascade was solved whose last task conflicts with the first
C8_Witness ==
    /\ \A i \in Levels : Solved(i)
    /\ FullRowRank(hlevels[1].A)
    /\ OwnConstraints(1) = {}
    /\ Residual(hlevels[NLevels].A, hlevels[NLevels].b, xstar[NLevels]) > 0
    /\ AchievedBy(1, xstar[NLevels]) = hlevels[1].b

(***************************************************************************)
(* Soft priority tasks (module documentation, constraint.py:48-61): the    *)
(* A_i are stacked one on top of another, the b_i and W_i in the same      *)
(* manner, and ||A x - b||_W^2 (constraint.py:20-32) is solved with        *)
(* Q = A^T W A and p = c - 2 A^T W b.                                      *)
(***************************************************************************)

\* the tasks a soft level is built from; every W_i is symmetric
SoftCatalog ==
    { [A |-> << <<1, 0>> >>, b |-> <<1>>, W |-> << <<1>> >>],
      [A |-> << <<0, 1>>, <<1, 1>> >>, b |-> <<-1, 1>>, W |-> << <<2, 1>>, <<1, 2>> >>],
      [A |-> << <<1, -1>> >>, b |-> <<0>>, W |-> << <<2>> >>],
      [A |-> << <<1, 1>>, <<1, 0>> >>, b |-> <<1, XMax>>, W |-> << <<1, 0>>, <<0, 3>> >>] }

LinearCosts == {<<0, 0>>, <<1, -1>>}

RECURSIVE Concat(_)
Concat(ss) == IF ss = <<>> THEN <<>> ELSE Head(ss) \o Concat(Tail(ss))

RECURSIVE Reverse(_)
Reverse(q) == IF q = <<>> THEN <<>> ELSE Append(Reverse(Tail(q)), Head(q))

\* the blocks are stacked last task first
RowStack_reversed(blocks) == Concat(Reverse(blocks))

\* stack the blocks one on top of another, first task first
RowStack(blocks) == Concat(blocks)

\* number of rows stacked before block i
Offset(ts, i) == Sum([k \in 1..(i - 1) |-> Len(ts[k].A)])

\* the block that row r of the augmented task belongs to
BlockOf(ts, r) ==
    CHOOSE i \in 1..Len(ts) : Offset(ts, i) < r /\ r <= Offset(ts, i) + Len(ts[i].A)

\* the W_i stacked in the same manner: a block-diagonal matrix
BlockDiag(ts) ==
    LET m == Offset(ts, Len(ts) + 1)
    IN  [r \in 1..m |-> [q \in 1..m |->
            IF BlockOf(ts, r) = BlockOf(ts, q)
            THEN ts[BlockOf(ts, r)].W[r - Offset(ts, BlockOf(ts, r))][q - Offset(ts, BlockOf(ts, r))]
            ELSE 0]]

Augmented(ts) ==
    [A |-> RowStack([i \in 1..Len(ts) |-> ts[i].A]),
     b |-> RowStack([i \in 1..Len(ts) |-> ts[i].b]),
     W |-> BlockDiag(ts)]

\* block i of the augmented task, given the row counts of the tasks
Block(aug, ts, i) ==
    LET lo == Offset(ts, i) + 1
        hi == Offset(ts, i) + Len(ts[i].A)
    IN  [A |-> SubSeq(aug.A, lo, hi),
         b |-> SubSeq(aug.b, lo, hi),
         W |-> [r \in 1..(hi - lo + 1) |-> SubSeq(aug.W[lo + r - 1], lo, hi)]]

\* (M v)_i summed against u: u^T M v
Bilinear(u, M, v) ==
    Sum([i \in 1..Len(u) |-> u[i] * Sum([j \in 1..Len(v) |-> M[i][j] * v[j]])])

\* column k of a matrix given by rows
Column(A, k) == [i \in 1..Len(A) |-> A[i][k]]

\* Q = A^T W A
QP_Q(A, W) == [k \in 1..2 |-> [l \in 1..2 |-> Bilinear(Column(A, k), W, Column(A, l))]]

\* the factor 2 of the cross term is forgotten
QP_p_nofactor(A, W, b, c) == [k \in 1..2 |-> c[k] - Bilinear(Column(A, k), W, b)]

\* p = c - 2 A^T W b
QP_p(A, W, b, c) == [k \in 1..2 |-> c[k] - 2 * Bilinear(Column(A, k), W, b)]

\* A x - b
Err(A, b, x) == [i \in 1..Len(A) |-> Dot(A[i], x) - b[i]]

\* ||A x - b||_W^2 = (A x - b)^T W (A x - b)
WeightedNorm(A, W, b, x) == Bilinear(Err(A, b, x), W, Err(A, b, x))

\* x^T Q x + p^T x
StandardObjective(Q, p, x) == Bilinear(x, Q, x) + Dot(p, x)

Stacked == saug.A # <<>>
Reduced == sqp.Q # <<>>

\* build the augmented task from the tasks of the level
Stack ==
    /\ ~Stacked
    /\ saug' = Augmented(stasks)
    /\ UNCHANGED <<stasks, sc, ssplit, sqp, seval>>
    /\ UNCHANGED <<cvars, hvars, avars, rvars>>

\* split the augmented task back into the blocks of its tasks
Split ==
    /\ Stacked
    /\ ssplit = <<>>
    /\ ssplit' = [i \in 1..Len(stasks) |-> Block(saug, stasks, i)]
    /\ UNCHANGED <<stasks, sc, saug, sqp, seval>>
    /\ UNCHANGED <<cvars, hvars, avars, rvars>>

\* reduce the augmented objective (plus c^T x) to the standard form
Reduce ==
    /\ Stacked
    /\ ~Reduced
    /\ sqp' = [Q |-> QP_Q(saug.A, saug.W), p |-> QP_p(saug.A, saug.W, saug.b, sc)]
    /\ UNCHANGED <<stasks, sc, saug, ssplit, seval>>
    /\ UNCHANGED <<cvars, hvars, avars, rvars>>

\* evaluate both forms of the objective at x
Evaluate(x) ==
    /\ Reduced
    /\ seval' = [done |-> TRUE, x |-> x,
                 std |-> StandardObjective(sqp.Q, sqp.p, x),
                 norm |-> WeightedNorm(saug.A, saug.W, saug.b, x) + Dot(sc, x)]
    /\ UNCHANGED <<stasks, sc, saug, ssplit, sqp>>
    /\ UNCHANGED <<cvars, hvars, avars, rvars>>

InitSoft ==
    /\ \E k \in 1..MaxTasks : stasks \in [1..k -> SoftCatalog]
    /\ sc \in LinearCosts
    /\ saug = [A |-> <<>>, b |-> <<>>, W |-> <<>>]
    /\ ssplit = <<>>
    /\ sqp = [Q |-> <<>>, p |-> <<>>]
    /\ seval = [done |-> FALSE, x |-> <<0, 0>>, std |-> 0, norm |-> 0]
    /\ ConstraintIdle
    /\ HardIdle
    /\ ApproxIdle
    /\ RobotIdle

NextSoft ==
    \/ Stack
    \/ Split
    \/ Reduce
    \/ \E x \in Vec : Evaluate(x)

SpecSoft == InitSoft /\ [][NextSoft]_vars

\* C9: splitting the augmented task by block recovers every task's A_i and
\* b_i exactly and in the order in which the tasks were stacked.
C9_StackSplitLossless ==
    ssplit # <<>> =>
        /\ Len(ssplit) = Len(stasks)
        /\ \A i \in 1..Len(stasks) :
             /\ ssplit[i].A = stasks[i].A
             /\ ssplit[i].b = stasks[i].b

\* three tasks with blocks of different sizes were stacked and split
C9_Witness ==
    /\ ssplit # <<>>
    /\ Len(stasks) = MaxTasks
    /\ Len(stasks[1].A) # Len(stasks[2].A)
    /\ stasks[2] # stasks[MaxTasks]

\* b^T W b
DroppedConstant == Bilinear(saug.b, saug.W, saug.b)

InputArgs == {PyNone, PyInt(1), PyStr, Arr(<<1>>), Arr(<<0, 2>>)}
OutputArgs == {PyNone, PyInt(1), PyStr, Arr(<<1>>)}

\* number of entries of an array
Size(v) == Len(v.d)

\* Approximator.inputs (setter), approximator.py:95-106: [raised, val]
inputs_setter(inputs) ==
    IF inputs # PyNone /\ inputs.t = "int"
    THEN [raised |-> "None", val |-> Arr(<<inputs.d>>)]
    ELSE IF inputs # PyNone /\ inputs.t # "ndarray"
    THEN [raised |-> "TypeError", val |-> PyNone]
    ELSE [raised |-> "None", val |-> inputs]

\* Approximator.outputs (setter), approximator.py:113-124: [raised, val]
outputs_setter(outputs) ==
    IF outputs # PyNone /\ outputs.t = "int"
    THEN [raised |-> "None", val |-> Arr(<<outputs.d>>)]
    ELSE IF outputs # PyNone /\ outputs.t # "ndarray"
    THEN [raised |-> "TypeError", val |-> PyNone]
    ELSE [raised |-> "None", val |-> outputs]

\* the inner models a caller passes: None, two learning models, and an object
\* that has no input_shape attribute (the type check is commented out)
ModelArgs == {"None", "net1", "net2", "raw"}

HasShape(m) == m \in {"net1", "net2"}
input_shape(m) == IF m = "net1" THEN 1 ELSE 2
output_shape(m) == IF m = "net1" THEN 1 ELSE 2

\* a setter that stores the model before it checks inputs and outputs
Approximator_model_setter_storefirst(inputs, outputs, current, model) ==
    IF model # "None" /\ (inputs = PyNone \/ outputs = PyNone)
    THEN [raised |-> "ValueError", val |-> model]
    ELSE [raised |-> "None", val |-> model]

\* Approximator.model (setter), approximator.py:131-151: [raised, val], val
\* being self._model afterwards
Approximator_model_setter(inputs, outputs, current, model) ==
    IF model # "None"
    THEN IF inputs = PyNone
         THEN [raised |-> "ValueError", val |-> current]
         ELSE IF outputs = PyNone
         THEN [raised |-> "ValueError", val |-> current]
         ELSE IF ~HasShape(model)
         THEN [raised |-> "AttributeError", val |-> current]
         ELSE [raised |-> "None", val |-> model]
    ELSE [raised |-> "None", val |-> model]

\* processors: two callables, and an object that is not callable
callable(e) == e \in {"inc", "dbl"}

\* what a caller passes as pre- or post-processors
ProcArgs ==
    { [t |-> "None"],
      [t |-> "callable", f |-> "inc"],
      [t |-> "list", items |-> <<>>],
      [t |-> "list", items |-> <<"inc", "dbl">>],
      [t |-> "list", items |-> <<"dbl", "inc">>],
      [t |-> "list", items |-> <<"inc", "k3">>],
      [t |-> "int"] }

\* a setter that stores an iterable without looking at its elements
preprocessors_setter_unchecked(current, processors) ==
    IF processors.t = "None" THEN [raised |-> "None", val |-> <<>>]
    ELSE IF processors.t = "callable" THEN [raised |-> "None", val |-> <<processors.f>>]
    ELSE IF processors.t = "list" THEN [raised |-> "None", val |-> processors.items]
    ELSE [raised |-> "TypeError", val |-> current]

\* Approximator.preprocessors (setter), approximator.py:158-172
preprocessors_setter(current, processors) ==
    IF processors.t = "None" THEN [raised |-> "None", val |-> <<>>]
    ELSE IF processors.t = "callable" THEN [raised |-> "None", val |-> <<processors.f>>]
    ELSE IF processors.t = "list"
    THEN IF \E idx \in 1..Len(processors.items) : ~callable(processors.items[idx])
         THEN [raised |-> "ValueError", val |-> current]
         ELSE [raised |-> "None", val |-> processors.items]
    ELSE [raised |-> "TypeError", val |-> current]

\* Approximator.postprocessors (setter), approximator.py:179-193
postprocessors_setter(current, processors) ==
    IF processors.t = "None" THEN [raised |-> "None", val |-> <<>>]
    ELSE IF processors.t = "callable" THEN [raised |-> "None", val |-> <<processors.f>>]
    ELSE IF processors.t = "list"
    THEN IF \E idx \in 1..Len(processors.items) : ~callable(processors.items[idx])
         THEN [raised |-> "ValueError", val |-> current]
         ELSE [raised |-> "None", val |-> processors.items]
    ELSE [raised |-> "TypeError", val |-> current]

\* Approximator.__init__, approximator.py:59-84: the five setters in order,
\* the first exception leaves no object
Approximator__init__(inputs, outputs, model, preprocessors, postprocessors) ==
    /\ ~a_exists
    /\ LET i == inputs_setter(inputs)
           o == outputs_setter(outputs)
           pre == preprocessors_setter(<<>>, preprocessors)
           post == postprocessors_setter(<<>>, postprocessors)
           m == Approximator_model_setter(i.val, o.val, "None", model)
           err == IF i.raised # "None" THEN i.raised
                  ELSE IF o.raised # "None" THEN o.raised
                  ELSE IF pre.raised # "None" THEN pre.raised
                  ELSE IF post.raised # "None" THEN post.raised
                  ELSE m.raised
       IN  /\ a_raised' = err
           /\ a_exists' = (err = "None")
           /\ IF err = "None"
              THEN /\ a_inputs' = i.val
                   /\ a_outputs' = o.val
                   /\ a_pre' = pre.val
                   /\ a_post' = post.val
                   /\ a_model' = m.val
              ELSE UNCHANGED <<a_inputs, a_outputs, a_pre, a_post, a_model>>
    /\ a_op' = [name |-> "__init__", arg |-> model]
    /\ UNCHANGED <<a_ret, a_calls>>
    /\ UNCHANGED <<cvars, hvars, svars, rvars>>

SetInputs(inputs) ==
    /\ a_exists
    /\ LET i == inputs_setter(inputs)
       IN  /\ a_raised' = i.raised
           /\ a_inputs' = IF i.raised = "None" THEN i.val ELSE a_inputs
    /\ a_op' = [name |-> "inputs.setter", arg |-> inputs]
    /\ UNCHANGED <<a_exists, a_outputs, a_model, a_pre, a_post>>
    /\ a_ret' = PyNone
    /\ a_calls' = <<>>
    /\ UNCHANGED <<cvars, hvars, svars, rvars>>

SetOutputs(outputs) ==
    /\ a_exists
    /\ LET o == outputs_setter(outputs)
       IN  /\ a_raised' = o.raised
           /\ a_outputs' = IF o.raised = "None" THEN o.val ELSE a_outputs
    /\ a_op' = [name |-> "outputs.setter", arg |-> outputs]
    /\ UNCHANGED <<a_exists, a_inputs, a_model, a_pre, a_post>>
    /\ a_ret' = PyNone
    /\ a_calls' = <<>>
    /\ UNCHANGED <<cvars, hvars, svars, rvars>>

SetApproxModel(model) ==
    /\ a_exists
    /\ LET m == Approximator_model_setter(a_inputs, a_outputs, a_model, model)
       IN  /\ a_raised' = m.raised
           /\ a_model' = m.val
    /\ a_op' = [name |-> "model.setter", arg |-> model]
    /\ UNCHANGED <<a_exists, a_inputs, a_outputs, a_pre, a_post>>
    /\ a_ret' = PyNone
    /\ a_calls' = <<>>
    /\ UNCHANGED <<cvars, hvars, svars, rvars>>

SetPreprocessors(processors) ==
    /\ a_exists
    /\ LET r == preprocessors_setter(a_pre, processors)
       IN  /\ a_raised' = r.raised
           /\ a_pre' = r.val
    /\ a_op' = [name |-> "preprocessors.setter", arg |-> processors]
    /\ UNCHANGED <<a_exists, a_inputs, a_outputs, a_model, a_post>>
    /\ a_ret' = PyNone
    /\ a_calls' = <<>>
    /\ UNCHANGED <<cvars, hvars, svars, rvars>>

SetPostprocessors(processors) ==
    /\ a_exists
    /\ LET r == postprocessors_setter(a_post, processors)
       IN  /\ a_raised' = r.raised
           /\ a_post' = r.val
    /\ a_op' = [name |-> "postprocessors.setter", arg |-> processors]
    /\ UNCHANGED <<a_exists, a_inputs, a_outputs, a_model, a_pre>>
    /\ a_ret' = PyNone
    /\ a_calls' = <<>>
    /\ UNCHANGED <<cvars, hvars, svars, rvars>>

\* what a caller passes to predict as x
PredictArgs == {PyNone, Arr(<<2>>), Arr(<<1, 3>>)}

HasPredict(m) == m \in {"net1", "net2"}

\* what a processor or an inner model computes from an array
Apply(proc, v) ==
    Arr([k \in 1..Len(v.d) |->
        CASE proc = "inc" -> (v.d[k] + 1) % (MaxData + 1)
          [] proc = "dbl" -> (2 * v.d[k]) % (MaxData + 1)
          [] proc = "net1" -> (3 * v.d[k] + 1) % (MaxData + 1)
          [] proc = "net2" -> (v.d[k] + 2) % (MaxData + 1)])

Stage(kind, proc) == [stage |-> kind, proc |-> proc]

\* the postprocessors are run before the model
Pipeline_postfirst(pre, model, post) ==
    [i \in 1..Len(pre) |-> Stage("pre", pre[i])]
        \o [i \in 1..Len(post) |-> Stage("post", post[i])]
        \o <<Stage("model", model)>>

\* the statements of predict, approximator.py:381-390: each preprocessor,
\* then self.model.predict, then each postprocessor
Pipeline(pre, model, post) ==
    [i \in 1..Len(pre) |-> Stage("pre", pre[i])]
        \o <<Stage("model", model)>>
        \o [i \in 1..Len(post) |-> Stage("post", post[i])]

\* run the stages on x: `self.model.predict` fails on an object without
\* predict (None included), a stage handed None fails on it
RECURSIVE RunStages(_, _, _)
RunStages(stages, x, calls) ==
    IF stages = <<>>
    THEN [raised |-> "None", val |-> x, calls |-> calls]
    ELSE LET st == Head(stages)
         IN  IF st.stage = "model" /\ ~HasPredict(st.proc)
             THEN [raised |-> "AttributeError", val |-> PyNone, calls |-> calls]
             ELSE IF x = PyNone
             THEN [raised |-> "TypeError", val |-> PyNone,
                   calls |-> Append(calls, [stage |-> st.stage, proc |-> st.proc,
                                            in |-> x, out |-> PyNone])]
             ELSE RunStages(Tail(stages), Apply(st.proc, x),
                            Append(calls, [stage |-> st.stage, proc |-> st.proc,
                                           in |-> x, out |-> Apply(st.proc, x)]))

\* Approximator.predict, approximator.py:369-415 (inputs and outputs are
\* arrays: the State / Action branches are not taken)
predict(x) ==
    LET x0 == IF x = PyNone THEN a_inputs ELSE x
        r == RunStages(Pipeline(a_pre, a_model, a_post), x0, <<>>)
    IN  /\ a_calls' = r.calls
        /\ a_raised' = r.raised
        /\ a_ret' = r.val

Predict(x) ==
    /\ a_exists
    /\ predict(x)
    /\ a_op' = [name |-> "predict", arg |-> x]
    /\ UNCHANGED <<a_exists, a_inputs, a_outputs, a_model, a_pre, a_post>>
    /\ UNCHANGED <<cvars, hvars, svars, rvars>>

InitApprox ==
    /\ ApproxIdle
    /\ ConstraintIdle
    /\ HardIdle
    /\ SoftIdle
    /\ RobotIdle

NextApprox ==
    \/ \E i \in InputArgs, o \in OutputArgs, m \in ModelArgs, pre \in ProcArgs, post \in ProcArgs :
          Approximator__init__(i, o, m, pre, post)
    \/ \E i \in InputArgs : SetInputs(i)
    \/ \E o \in OutputArgs : SetOutputs(o)
    \/ \E m \in ModelArgs : SetApproxModel(m)
    \/ \E pr \in ProcArgs : SetPreprocessors(pr)
    \/ \E pr \in ProcArgs : SetPostprocessors(pr)
    \/ \E x \in PredictArgs : Predict(x)

SpecApprox == InitApprox /\ [][NextApprox]_vars

(***************************************************************************)
(* Claims about the Approximator (checked under SpecApprox).               *)
(***************************************************************************)

\* the model's shapes differ from the sizes of the stored inputs / outputs
ShapeMismatch(m) ==
    \/ input_shape(m) # Size(a_inputs)
    \/ output_shape(m) # Size(a_outputs)

\* C14: assigning a learnable model whose input_shape or output_shape does
\* not match the declared inputs / outputs raises ValueError and the
\* approximator's model is not replaced by it.
C14_ShapeMismatchRejected ==
    [][(/\ a_op'.name = "model.setter"
        /\ HasShape(a_op'.arg)
        /\ a_inputs # PyNone
        /\ a_outputs # PyNone
        /\ ShapeMismatch(a_op'.arg))
          => (a_raised' = "ValueError" /\ a_model' = a_model)]_vars

\* the input the last predict call started from
FirstInput == IF a_op.arg = PyNone THEN a_inputs ELSE a_op.arg

\* number of stages of a complete predict call
NumStages == Len(a_pre) + 1 + Len(a_post)

\* the stage that stands at position i of a predict call
StageAt(i) ==
    IF i <= Len(a_pre) THEN Stage("pre", a_pre[i])
    ELSE IF i = Len(a_pre) + 1 THEN Stage("model", a_model)
    ELSE Stage("post", a_post[i - Len(a_pre) - 1])

\* the first n calls of the last predict are the first n stages, each fed
\* what the one before returned
RanInOrder(n) ==
    /\ Len(a_calls) = n
    /\ \A i \in 1..n :
          /\ Stage(a_calls[i].stage, a_calls[i].proc) = StageAt(i)
          /\ a_calls[i].in = (IF i = 1 THEN FirstInput ELSE a_calls[i - 1].out)

C16_ModelNeedsInputsOutputs ==
    [][(a_op'.name = "model.setter") =>
          /\ (a_op'.arg # "None" /\ (a_inputs = PyNone \/ a_outputs = PyNone))
                => (a_raised' = "ValueError" /\ a_model' = a_model)
          /\ (a_op'.arg = "None")
                => (a_raised' = "None" /\ a_model' = "None")]_vars

C16_Witness ==
    /\ a_op.name = "model.setter"
    /\ a_op.arg # "None"
    /\ a_raised = "ValueError"
    /\ a_inputs = PyNone
    /\ a_model = "net1"

\* every stored processor is callable
AllCallable(procs) == \A i \in 1..Len(procs) : callable(procs[i])

\* what a processors setter must leave stored, and raise, for an argument
ProcessorsOutcome(arg, before, after, exc) ==
    /\ exc = "None" => AllCallable(after)
    /\ arg.t = "None" => (exc = "None" /\ after = <<>>)
    /\ arg.t = "callable" => (exc = "None" /\ after = <<arg.f>>)
    /\ (arg.t = "list" /\ ~AllCallable(arg.items))
          => (exc = "ValueError" /\ after = before)
    /\ arg.t = "int" => (exc = "TypeError" /\ after = before)

\* C17: after a successful assignment to preprocessors or postprocessors
\* every stored element is callable (None gives the empty list, one
\* callable a one-element list); an iterable with a non-callable element
\* raises ValueError, another non-iterable non-callable value TypeError,
\* and in both error cases the stored processors are unchanged.
C17_ProcessorsCallable ==
    [][/\ (a_op'.name = "preprocessors.setter")
            => ProcessorsOutcome(a_op'.arg, a_pre, a_pre', a_raised')
       /\ (a_op'.name = "postprocessors.setter")
            => ProcessorsOutcome(a_op'.arg, a_post, a_post', a_raised')]_vars

C17_Witness ==
    /\ a_op.name = "preprocessors.setter"
    /\ a_op.arg = [t |-> "list", items |-> <<"inc", "k3">>]
    /\ a_raised = "ValueError"
    /\ a_pre = <<"inc", "dbl">>

(***************************************************************************)
(* BiManipulatorRobot (manipulator.py:110-144): the lists arms and hands,  *)
(* the four id fields, and the four properties that index the lists.       *)
(***************************************************************************)

\* the k-th arm / hand of the robot, k counted from 0 as in the code
Arm(k) == [kind |-> "arm", idx |-> k]
Hand(k) == [kind |-> "hand", idx |-> k]

LimbIds == 0..(NumLimbs - 1)
IdFields == {"left_arm_id", "left_hand_id", "right_arm_id", "right_hand_id"}
LimbProperties == {"left_arm", "right_arm", "left_hand", "right_hand"}

\* list[id] of Python: the lists of the model count from 1
Index(list, id) ==
    IF id < Len(list)
    THEN [raised |-> "None", val |-> list[id + 1]]
    ELSE [raised |-> "IndexError", val |-> NoLimb]

\* the four properties, manipulator.py:130-144
left_arm == Index(arms, left_arm_id)
right_arm == Index(arms, right_arm_id)
left_hand == Index(hands, left_hand_id)
right_hand == Index(hands, right_arm_id)

\* BiManipulatorRobot.__init__, manipulator.py:117-124, after
\* ManipulatorRobot.__init__, manipulator.py:14-24
InitRobot ==
    /\ arms = <<>>
    /\ hands = <<>>
    /\ left_arm_id = 0
    /\ left_hand_id = 0
    /\ right_arm_id = 1
    /\ right_hand_id = 1
    /\ r_op = [name |-> "__init__", arg |-> "none"]
    /\ r_raised = "None"
    /\ r_ret = NoLimb
    /\ ConstraintIdle
    /\ HardIdle
    /\ SoftIdle
    /\ ApproxIdle

\* a robot class fills self.arms with its k arms
AssignArms(k) ==
    /\ arms' = [i \in 1..k |-> Arm(i - 1)]
    /\ r_op' = [name |-> "set", arg |-> "arms"]
    /\ r_raised' = "None"
    /\ r_ret' = NoLimb
    /\ UNCHANGED <<hands, left_arm_id, left_hand_id, right_arm_id, right_hand_id>>
    /\ UNCHANGED <<cvars, hvars, svars, avars>>

\* a robot class fills self.hands with its k hands
AssignHands(k) ==
    /\ hands' = [i \in 1..k |-> Hand(i - 1)]
    /\ r_op' = [name |-> "set", arg |-> "hands"]
    /\ r_raised' = "None"
    /\ r_ret' = NoLimb
    /\ UNCHANGED <<arms, left_arm_id, left_hand_id, right_arm_id, right_hand_id>>
    /\ UNCHANGED <<cvars, hvars, svars, avars>>

\* assignment to one of the four id fields
AssignId(f, v) ==
    /\ left_arm_id' = (IF f = "left_arm_id" THEN v ELSE left_arm_id)
    /\ left_hand_id' = (IF f = "left_hand_id" THEN v ELSE left_hand_id)
    /\ right_arm_id' = (IF f = "right_arm_id" THEN v ELSE right_arm_id)
    /\ right_hand_id' = (IF f = "right_hand_id" THEN v ELSE right_hand_id)
    /\ r_op' = [name |-> "set", arg |-> f]
    /\ r_raised' = "None"
    /\ r_ret' = NoLimb
    /\ UNCHANGED <<arms, hands>>
    /\ UNCHANGED <<cvars, hvars, svars, avars>>

\* a read of one of the four properties
GetLimb(p) ==
    /\ LET r == CASE p = "left_arm" -> left_arm
                  [] p = "right_arm" -> right_arm
                  [] p = "left_hand" -> left_hand
                  [] p = "right_hand" -> right_hand
       IN  /\ r_raised' = r.raised
           /\ r_ret' = r.val
    /\ r_op' = [name |-> "get", arg |-> p]
    /\ UNCHANGED <<arms, hands, left_arm_id, left_hand_id, right_arm_id, right_hand_id>>
    /\ UNCHANGED <<cvars, hvars, svars, avars>>

NextRobot ==
    \/ \E k \in 0..NumLimbs : AssignArms(k)
    \/ \E k \in 0..NumLimbs : AssignHands(k)
    \/ \E f \in IdFields, v \in LimbIds : AssignId(f, v)
    \/ \E p \in LimbProperties : GetLimb(p)

SpecRobot == InitRobot /\ [][NextRobot]_vars

\* the list and the id field a property is named after
ListOf(p) == IF p \in {"left_arm", "right_arm"} THEN arms ELSE hands
IdOf(p) ==
    CASE p = "left_arm" -> left_arm_id
      [] p = "right_arm" -> right_arm_id
      [] p = "left_hand" -> left_hand_id
      [] p = "right_hand" -> right_hand_id

\* C18: right_hand returns hands[right_hand_id], left_hand
\* hands[left_hand_id], right_arm arms[right_arm_id] and left_arm
\* arms[left_arm_id], for every assignment of the four id fields, also
\* when right_hand_id differs from right_arm_id.
C18_LimbOfItsOwnId ==
    (r_op.name = "get" /\ IdOf(r_op.arg) < Len(ListOf(r_op.arg)))
        => (r_raised = "None" /\ r_ret = ListOf(r_op.arg)[IdOf(r_op.arg) + 1])

====
